---- MODULE Spec2Model ----
(***************************************************************************)
(* A model of sjdiff: the structural JSON comparison of src/src/lib.rs     *)
(* (Diff::compare and the functions under it), the path model and the      *)
(* path parser of src/src/element_path_parser.rs.                          *)
(*                                                                         *)
(* serde_json values are tagged records; an object is the sequence of its  *)
(* <<key, value>> entries in the map's iteration order; a key is a         *)
(* sequence of one-character strings, as the parser builds it.  Option is  *)
(* a record too: NoneD is Option<Difference>::None.                        *)
(***************************************************************************)
EXTENDS Integers, Sequences, FiniteSets, TLC

VARIABLES
    pc,                              \* "builder" | "diff" | "done"
    source,                          \* DiffBuilder/Diff::source
    target,                          \* DiffBuilder/Diff::target
    ignore_paths,                    \* Diff::ignore_paths
    equate_empty_arrays,             \* Diff::equate_empty_arrays
    approx_float_eq_epsilon,         \* Diff::approx_float_eq_epsilon
    approx_date_time_eq_duration,    \* Diff::approx_date_time_eq_duration
    curr_path,                       \* Diff::curr_path
    result                           \* what Diff::compare returned

vars == <<pc, source, target, ignore_paths, equate_empty_arrays,
          approx_float_eq_epsilon, approx_date_time_eq_duration, curr_path, result>>

----------------------------------------------------------------------------
(* Bounds of the model. *)

\* Integers are IntBits wide instead of 64: u64 is 0 .. 2^IntBits - 1.
IntBits == 3
\* Floats lie on the grid of multiples of 1/FloatDen.
FloatDen == 2
\* f64 keeps F64MantissaBits bits of mantissa instead of 52.
F64MantissaBits == 16
\* The longest array of the value universe.
MaxLen == 2
\* The most exemptions a builder registers.
MaxIgnore == 1
\* The longest path looked up on its own.
MaxPathLen == 2
\* The longest string given to the path parser.
MaxStr == 5

I64Max == 2 ^ (IntBits - 1) - 1
I64Min == 0 - 2 ^ (IntBits - 1)
U64Max == 2 ^ IntBits - 1

Min(a, b) == IF a <= b THEN a ELSE b
Max(a, b) == IF a >= b THEN a ELSE b
Abs(a) == IF a < 0 THEN 0 - a ELSE a

----------------------------------------------------------------------------
(* serde_json::Value and serde_json::Number. *)

Null == [t |-> "Null"]
Bool(b) == [t |-> "Bool", b |-> b]
Number(n) == [t |-> "Number", n |-> n]
String(s) == [t |-> "String", s |-> s]
Array(a) == [t |-> "Array", a |-> a]
Object(o) == [t |-> "Object", o |-> o]

\* Number's three representations: N::PosInt(u64), N::NegInt(i64), N::Float(f64).
PosInt(v) == [k |-> "PosInt", v |-> v]
NegInt(v) == [k |-> "NegInt", v |-> v]
\* Float(m) is the float m / FloatDen.
Float(m) == [k |-> "Float", v |-> m]

is_u64(n) == n.k = "PosInt"
is_i64(n) == \/ n.k = "PosInt" /\ n.v <= I64Max
             \/ n.k = "NegInt"
is_f64(n) == n.k = "Float"
\* as_f64, in units of 1/FloatDen.
as_f64(n) == IF n.k = "Float" THEN n.v ELSE n.v * FloatDen

\* Type::from(value)
TypeOf(value) == value.t

\* A key of one or more characters.
K(c) == <<c>>

\* serde_json::Map, iterated in key order: contains_key, remove.
contains_key(map, key) == \E i \in 1..Len(map) : map[i][1] = key
get(map, key) == map[CHOOSE i \in 1..Len(map) : map[i][1] = key][2]
remove(map, key) == SelectSeq(map, LAMBDA e : e[1] # key)

----------------------------------------------------------------------------
(* Option<Difference> and its variants. *)

NoneD == [d |-> "None"]
IsSome(x) == x.d # "None"

ScalarBool(s, t) == [d |-> "Scalar", kind |-> "Bool", source |-> Bool(s), target |-> Bool(t)]
ScalarString(s, t) == [d |-> "Scalar", kind |-> "String", source |-> String(s), target |-> String(t)]
ScalarNumber(s, t) == [d |-> "Scalar", kind |-> "Number", source |-> Number(s), target |-> Number(t)]
TypeDiff(s, t) ==
    [d |-> "Type", source_type |-> TypeOf(s), source_value |-> s,
                   target_type |-> TypeOf(t), target_value |-> t]

\* Option<Map<usize, Difference>>
NoPairs == [some |-> FALSE]
SomePairs(pairs) == [some |-> TRUE, map |-> pairs]

PairsOnly(pairs) ==
    [d |-> "Array", array_difference |-> "pairs_only", different_pairs |-> pairs]
Shorter(pairs, missing) ==
    [d |-> "Array", array_difference |-> "shorter", different_pairs |-> pairs,
     missing_elements |-> missing]
Longer(pairs, extra) ==
    [d |-> "Array", array_difference |-> "longer", different_pairs |-> pairs,
     extra_length |-> extra]
ObjectDiff(entries) == [d |-> "Object", different_entries |-> entries]

Missing(v) == [entry_difference |-> "missing", value |-> v]
Extra(v) == [entry_difference |-> "extra", value |-> v]
ValueEntry(diff) == [entry_difference |-> "value", value_diff |-> diff]

----------------------------------------------------------------------------
(* PathElement, ArrayIndex, Path, IgnorePath and their equality. *)

Key(k) == [e |-> "Key", key |-> k]
Index(i) == [e |-> "ArrayIndex", index |-> [i |-> "Index", n |-> i]]
All == [e |-> "ArrayIndex", index |-> [i |-> "All"]]

IgnorePath(path, ignore_missing) == [path |-> path, ignore_missing |-> ignore_missing]

\* ArrayIndex equality in which All equals All alone.
ArrayIndex_eq_derived(a, b) ==
    IF a.i = "Index" /\ b.i = "Index" THEN a.n = b.n ELSE a.i = b.i

\* impl PartialEq for ArrayIndex
ArrayIndex_eq(a, b) ==
    IF a.i = "Index" /\ b.i = "Index" THEN a.n = b.n ELSE TRUE

\* #[derive(PartialEq)] on PathElement
PathElement_eq(a, b) ==
    CASE a.e = "Key" /\ b.e = "Key" -> a.key = b.key
      [] a.e = "ArrayIndex" /\ b.e = "ArrayIndex" -> ArrayIndex_eq(a.index, b.index)
      [] OTHER -> FALSE

\* #[derive(PartialEq)] on Path(Vec<PathElement>)
Path_eq(p, q) ==
    /\ Len(p) = Len(q)
    /\ \A i \in 1..Len(p) : PathElement_eq(p[i], q[i])

\* Vec::push and Vec::pop on the cursor.
push(path, elem) == Append(path, elem)
pop(path) == IF Len(path) = 0 THEN path ELSE SubSeq(path, 1, Len(path) - 1)

----------------------------------------------------------------------------
(* element_path_parser.rs: a string is the sequence of its characters. *)

Digits == <<"0", "1", "2", "3", "4", "5", "6", "7", "8", "9">>
IsDigit(c) == \E d \in 1..Len(Digits) : Digits[d] = c
DigitVal(c) == (CHOOSE d \in 1..Len(Digits) : Digits[d] = c) - 1

Ok(v) == [ok |-> TRUE, v |-> v]
Err(msg) == [ok |-> FALSE, err |-> msg]

\* The digits of a usize, most significant first: -1 once the value overflows.
RECURSIVE usize_digits(_, _, _)
usize_digits(s, i, acc) ==
    IF i > Len(s) THEN acc
    ELSE IF acc < 0 \/ ~IsDigit(s[i]) \/ acc * 10 + DigitVal(s[i]) > U64Max THEN -1
    ELSE usize_digits(s, i + 1, acc * 10 + DigitVal(s[i]))

\* str::parse::<usize>: an optional '+', then one or more digits, no overflow.
parse_usize(s) ==
    LET body == IF Len(s) > 0 /\ s[1] = "+" THEN Tail(s) ELSE s
        v == usize_digits(body, 1, 0)
    IN  IF Len(body) = 0 \/ v < 0 THEN Err("invalid digit") ELSE Ok(v)

\* The parser's locals; err is set by a `return Err(..)`.
ParserStart ==
    [result |-> <<>>, current |-> <<>>, in_quotes |-> FALSE, in_brackets |-> FALSE,
     err |-> ""]

\* One turn of `while let Some(c) = chars.next()`.
parse_char(st, c) ==
    CASE c = "'" ->
            IF st.in_quotes
            THEN IF st.current = <<>>
                 THEN [st EXCEPT !.err = "Empty quoted string is not allowed"]
                 ELSE [st EXCEPT !.result = Append(@, Key(st.current)),
                                 !.current = <<>>, !.in_quotes = FALSE]
            ELSE IF st.current # <<>>
                 THEN [st EXCEPT !.err = "Unexpected quote"]
                 ELSE [st EXCEPT !.in_quotes = TRUE]
      [] c = "." ->
            IF st.in_quotes THEN [st EXCEPT !.current = Append(@, c)]
            ELSE IF st.current # <<>>
                 THEN [st EXCEPT !.result = Append(@, Key(st.current)), !.current = <<>>]
            ELSE IF st.result = <<>>
                 THEN [st EXCEPT !.err = "Path cannot start with a dot"]
            ELSE st
      [] c = "[" ->
            IF st.in_quotes THEN [st EXCEPT !.current = Append(@, c)]
            ELSE IF st.current # <<>>
                 THEN [st EXCEPT !.result = Append(@, Key(st.current)), !.current = <<>>,
                                 !.in_brackets = TRUE]
            ELSE [st EXCEPT !.in_brackets = TRUE]
      [] c = "]" ->
            IF st.in_quotes THEN [st EXCEPT !.current = Append(@, c)]
            ELSE IF st.in_brackets
                 THEN IF st.current = <<"_">>
                      THEN [st EXCEPT !.result = Append(@, All), !.current = <<>>,
                                      !.in_brackets = FALSE]
                      ELSE IF parse_usize(st.current).ok
                           THEN [st EXCEPT !.result = Append(@, Index(parse_usize(st.current).v)),
                                           !.current = <<>>, !.in_brackets = FALSE]
                           ELSE [st EXCEPT !.err = "Invalid array index"]
            ELSE [st EXCEPT !.err = "Unexpected closing bracket"]
      [] OTHER -> [st EXCEPT !.current = Append(@, c)]

RECURSIVE parse_chars(_, _, _)
parse_chars(s, i, st) ==
    IF st.err # "" \/ i > Len(s) THEN st
    ELSE parse_chars(s, i + 1, parse_char(st, s[i]))

\* parse_element_path that leaves out the key still in `current` at the end of input.
parse_element_path_drops_last(s) ==
    IF s = <<>> THEN Err("Empty path is not allowed")
    ELSE LET st == parse_chars(s, 1, ParserStart)
         IN  IF st.err # "" THEN Err(st.err)
             ELSE IF st.in_quotes THEN Err("Unclosed quote")
             ELSE IF st.in_brackets THEN Err("Unclosed bracket")
             ELSE IF st.result = <<>> THEN Err("Empty path is not allowed")
             ELSE Ok(st.result)

\* parse_element_path without the test of in_brackets at the end of input.
parse_element_path_unclosed_bracket(s) ==
    IF s = <<>> THEN Err("Empty path is not allowed")
    ELSE LET st == parse_chars(s, 1, ParserStart)
             elements == IF st.current # <<>> THEN Append(st.result, Key(st.current))
                         ELSE st.result
         IN  IF st.err # "" THEN Err(st.err)
             ELSE IF st.in_quotes THEN Err("Unclosed quote")
             ELSE IF elements = <<>> THEN Err("Empty path is not allowed")
             ELSE Ok(elements)

parse_element_path(s) ==
    IF s = <<>> THEN Err("Empty path is not allowed")
    ELSE LET st == parse_chars(s, 1, ParserStart)
             elements == IF st.current # <<>> THEN Append(st.result, Key(st.current))
                         ELSE st.result
         IN  IF st.err # "" THEN Err(st.err)
             ELSE IF st.in_quotes THEN Err("Unclosed quote")
             ELSE IF st.in_brackets THEN Err("Unclosed bracket")
             ELSE IF elements = <<>> THEN Err("Empty path is not allowed")
             ELSE Ok(elements)

\* impl FromStr for Path
Path_from_str(s) == parse_element_path(s)

----------------------------------------------------------------------------
(* The comparison engine of lib.rs.  `self` is the Diff record; a function *)
(* that takes &mut self returns its value with the cursor it leaves.       *)

Diff(cp, ips, eea, eps, dur) ==
    [curr_path |-> cp, ignore_paths |-> ips, equate_empty_arrays |-> eea,
     approx_float_eq_epsilon |-> eps, approx_date_time_eq_duration |-> dur]

Ret(res, cp) == [res |-> res, curr_path |-> cp]

\* Iterator::find over self.ignore_paths: the index of the first match, or 0.
find(self) ==
    IF \E i \in 1..Len(self.ignore_paths) : Path_eq(self.ignore_paths[i].path, self.curr_path)
    THEN CHOOSE i \in 1..Len(self.ignore_paths) :
            /\ Path_eq(self.ignore_paths[i].path, self.curr_path)
            /\ \A j \in 1..(i - 1) : ~Path_eq(self.ignore_paths[j].path, self.curr_path)
    ELSE 0

\* ignore_path that grants the exemption only to entries registered with
\* ignore_missing, whichever side has the key.
ignore_path_needs_flag(self, has_key) ==
    LET i == find(self)
    IN  i # 0 /\ self.ignore_paths[i].ignore_missing

\* ignore_path that grants the exemption to every match, whichever side has the key.
ignore_path_any_match(self, has_key) == find(self) # 0

ignore_path(self, has_key) ==
    LET i == find(self)
        p == self.ignore_paths[i]
    IN  CASE i # 0 /\ Path_eq(p.path, self.curr_path) /\ has_key -> TRUE
          [] i # 0 /\ Path_eq(p.path, self.curr_path) /\ ~has_key /\ p.ignore_missing -> TRUE
          [] i # 0 /\ Path_eq(p.path, self.curr_path) /\ ~has_key /\ ~p.ignore_missing -> FALSE
          [] OTHER -> FALSE

\* approx::relative_eq!(a, b, epsilon = e), max_relative = f64::EPSILON; all
\* three in units of 1/FloatDen.
relative_eq(a, b, epsilon) ==
    LET abs_diff == Abs(a - b)
        largest == Max(Abs(a), Abs(b))
    IN  \/ a = b
        \/ abs_diff <= epsilon
        \/ abs_diff * 2 ^ F64MantissaBits <= largest

compare_numbers(self, s, t) ==
    IF (is_u64(s) /\ is_u64(t)) \/ (is_i64(s) /\ is_i64(t))
    THEN IF s = t THEN NoneD ELSE ScalarNumber(s, t)
    ELSE IF is_f64(s) \/ is_f64(t)
    THEN IF relative_eq(as_f64(s), as_f64(t), self.approx_float_eq_epsilon)
         THEN NoneD ELSE ScalarNumber(s, t)
    ELSE NoneD

\* chrono::DateTime::parse_from_rfc3339 on the strings of the model: the instant in
\* milliseconds after 2023-07-25T15:30:00Z, or an error.
parse_from_rfc3339(s) ==
    CASE s = "2023-07-25T15:30:00Z" -> Ok(0)
      [] s = "2023-07-25T15:30:01Z" -> Ok(1000)
      [] s = "2023-07-25T15:30:02Z" -> Ok(2000)
      [] s = "2023-07-25T17:30:00+02:00" -> Ok(0)
      [] s = "2023-07-25T15:30:00.500Z" -> Ok(500)
      [] OTHER -> Err("input is not a timestamp")

\* compare_strings that reports a delta equal to the tolerance (ge for gt).
compare_strings_ge(self, s, t) ==
    LET source_datetime == parse_from_rfc3339(s)
        target_datetime == parse_from_rfc3339(t)
    IN  IF /\ self.approx_date_time_eq_duration # 0
           /\ source_datetime.ok /\ target_datetime.ok
        THEN IF Abs(source_datetime.v - target_datetime.v) >= self.approx_date_time_eq_duration
             THEN ScalarString(s, t) ELSE NoneD
        ELSE IF s = t THEN NoneD ELSE ScalarString(s, t)

compare_strings(self, s, t) ==
    LET source_datetime == parse_from_rfc3339(s)
        target_datetime == parse_from_rfc3339(t)
    IN  IF /\ self.approx_date_time_eq_duration # 0
           /\ source_datetime.ok /\ target_datetime.ok
        THEN IF Abs(source_datetime.v - target_datetime.v) > self.approx_date_time_eq_duration
             THEN ScalarString(s, t) ELSE NoneD
        ELSE IF s = t THEN NoneD ELSE ScalarString(s, t)

RECURSIVE values(_, _, _)

\* The filter_map of compare_array_elements from index i (0-based) on; acc holds
\* the pairs collected and the cursor so far.
RECURSIVE array_elements_from(_, _, _, _, _)
array_elements_from(self, s, t, i, acc) ==
    IF i >= Min(Len(s), Len(t)) THEN acc
    ELSE LET popped == IF i > 0 THEN pop(acc.curr_path) ELSE acc.curr_path
             r == values([self EXCEPT !.curr_path = push(popped, Index(i))],
                         s[i + 1], t[i + 1])
         IN  array_elements_from(self, s, t, i + 1,
                 Ret(IF IsSome(r.res) THEN Append(acc.res, <<i, r.res>>) ELSE acc.res,
                     r.curr_path))

\* compare_array_elements that looks each index up in the registry, as objects
\* does each key, and skips an exempt element.
RECURSIVE array_elements_exempt_from(_, _, _, _, _)
array_elements_exempt_from(self, s, t, i, acc) ==
    IF i >= Min(Len(s), Len(t)) THEN acc
    ELSE LET popped == IF i > 0 THEN pop(acc.curr_path) ELSE acc.curr_path
             here == [self EXCEPT !.curr_path = push(popped, Index(i))]
             r == values(here, s[i + 1], t[i + 1])
         IN  array_elements_exempt_from(self, s, t, i + 1,
                 IF ignore_path(here, TRUE) THEN Ret(acc.res, here.curr_path)
                 ELSE Ret(IF IsSome(r.res) THEN Append(acc.res, <<i, r.res>>) ELSE acc.res,
                          r.curr_path))

compare_array_elements_consults_registry(self, s, t) ==
    LET r == array_elements_exempt_from(self, s, t, 0, Ret(<<>>, self.curr_path))
        iterations == Min(Len(s), Len(t))
    IN  Ret(r.res, IF iterations # 0 THEN pop(r.curr_path) ELSE r.curr_path)

\* compare_array_elements that leaves the last index on the cursor.
compare_array_elements_no_pop(self, s, t) ==
    array_elements_from(self, s, t, 0, Ret(<<>>, self.curr_path))

compare_array_elements(self, s, t) ==
    LET r == array_elements_from(self, s, t, 0, Ret(<<>>, self.curr_path))
        iterations == Min(Len(s), Len(t))
    IN  Ret(r.res, IF iterations # 0 THEN pop(r.curr_path) ELSE r.curr_path)

\* arrays that takes the missing elements from the head of target (take, not skip).
arrays_missing_from_head(self, s, t) ==
    LET r == compare_array_elements(self, s, t)
        different_pairs == IF r.res = <<>> THEN NoPairs ELSE SomePairs(r.res)
    IN  Ret(CASE Len(s) > Len(t) -> Longer(different_pairs, Len(s) - Len(t))
              [] Len(s) < Len(t) -> Shorter(different_pairs, SubSeq(t, 1, Len(t) - Len(s)))
              [] OTHER -> IF different_pairs.some THEN PairsOnly(different_pairs.map)
                          ELSE NoneD,
            r.curr_path)

\* arrays that wraps the collected pairs whether or not there are any.
arrays_wraps_empty(self, s, t) ==
    LET r == compare_array_elements(self, s, t)
        different_pairs == SomePairs(r.res)
    IN  Ret(CASE Len(s) > Len(t) -> Longer(different_pairs, Len(s) - Len(t))
              [] Len(s) < Len(t) -> Shorter(different_pairs, SubSeq(t, Len(s) + 1, Len(t)))
              [] OTHER -> PairsOnly(different_pairs.map),
            r.curr_path)

arrays(self, s, t) ==
    LET r == compare_array_elements(self, s, t)
        different_pairs == IF r.res = <<>> THEN NoPairs ELSE SomePairs(r.res)
    IN  Ret(CASE Len(s) > Len(t) -> Longer(different_pairs, Len(s) - Len(t))
              [] Len(s) < Len(t) -> Shorter(different_pairs, SubSeq(t, Len(s) + 1, Len(t)))
              [] OTHER -> IF different_pairs.some THEN PairsOnly(different_pairs.map)
                          ELSE NoneD,
            r.curr_path)

\* The first filter_map of objects from the i-th source entry on; st holds is_first,
\* the cursor, what is left of target and the entries collected.
RECURSIVE source_entries_from(_, _, _, _)
source_entries_from(self, s, i, st) ==
    IF i > Len(s) THEN st
    ELSE LET key == s[i][1]
             cp == push(IF st.is_first THEN st.curr_path ELSE pop(st.curr_path), Key(key))
             here == [self EXCEPT !.curr_path = cp]
             r == values(here, s[i][2], get(st.target, key))
         IN  source_entries_from(self, s, i + 1,
               IF ignore_path(here, contains_key(st.target, key))
               THEN [st EXCEPT !.is_first = FALSE, !.curr_path = cp,
                               !.target = remove(@, key)]
               ELSE IF ~contains_key(st.target, key)
               THEN [st EXCEPT !.is_first = FALSE, !.curr_path = cp,
                               !.entries = Append(@, <<key, Extra(s[i][2])>>)]
               ELSE [st EXCEPT !.is_first = FALSE, !.curr_path = r.curr_path,
                               !.target = remove(@, key),
                               !.entries = IF IsSome(r.res)
                                           THEN Append(@, <<key, ValueEntry(r.res)>>)
                                           ELSE @])

\* missing_entries that looks the keys up as if the other side had them.
missing_entries_has_key(self, left) ==
    LET kept == SelectSeq(left, LAMBDA e :
                    ~ignore_path([self EXCEPT !.curr_path = push(self.curr_path, Key(e[1]))],
                                 TRUE))
    IN  [i \in 1..Len(kept) |-> <<kept[i][1], Missing(kept[i][2])>>]

\* missing_entries that reports what is left of target as Extra.
missing_entries_as_extra(self, left) ==
    LET kept == SelectSeq(left, LAMBDA e :
                    ~ignore_path([self EXCEPT !.curr_path = push(self.curr_path, Key(e[1]))],
                                 FALSE))
    IN  [i \in 1..Len(kept) |-> <<kept[i][1], Extra(kept[i][2])>>]

\* The second filter_map of objects, over what is left of target: each key is
\* pushed, looked up and popped.
missing_entries(self, left) ==
    LET kept == SelectSeq(left, LAMBDA e :
                    ~ignore_path([self EXCEPT !.curr_path = push(self.curr_path, Key(e[1]))],
                                 FALSE))
    IN  [i \in 1..Len(kept) |-> <<kept[i][1], Missing(kept[i][2])>>]

\* objects with the shared keys left in target: each is reported Missing as well.
objects_keeps_shared_keys(self, s, t) ==
    LET st == source_entries_from(self, s, 1,
                  [is_first |-> TRUE, curr_path |-> self.curr_path, target |-> t,
                   entries |-> <<>>])
        cp == IF ~st.is_first THEN pop(st.curr_path) ELSE st.curr_path
        value_differences ==
            st.entries \o missing_entries([self EXCEPT !.curr_path = cp], t)
    IN  Ret(IF value_differences = <<>> THEN NoneD ELSE ObjectDiff(value_differences), cp)

objects(self, s, t) ==
    LET st == source_entries_from(self, s, 1,
                  [is_first |-> TRUE, curr_path |-> self.curr_path, target |-> t,
                   entries |-> <<>>])
        cp == IF ~st.is_first THEN pop(st.curr_path) ELSE st.curr_path
        value_differences ==
            st.entries \o missing_entries([self EXCEPT !.curr_path = cp], st.target)
    IN  Ret(IF value_differences = <<>> THEN NoneD ELSE ObjectDiff(value_differences), cp)

\* values that equates any array with null once the option is set (no length test).
values_equates_any_array(self, s, t) ==
    CASE s.t = "Null" /\ t.t = "Null" -> Ret(NoneD, self.curr_path)
      [] s.t = "Bool" /\ t.t = "Bool" ->
            Ret(IF s.b = t.b THEN NoneD ELSE ScalarBool(s.b, t.b), self.curr_path)
      [] s.t = "Number" /\ t.t = "Number" ->
            Ret(compare_numbers(self, s.n, t.n), self.curr_path)
      [] s.t = "String" /\ t.t = "String" ->
            Ret(compare_strings(self, s.s, t.s), self.curr_path)
      [] s.t = "Array" /\ t.t = "Array" -> arrays(self, s.a, t.a)
      [] s.t = "Object" /\ t.t = "Object" -> objects(self, s.o, t.o)
      [] s.t = "Array" /\ t.t = "Null" /\ self.equate_empty_arrays -> Ret(NoneD, self.curr_path)
      [] s.t = "Null" /\ t.t = "Array" /\ self.equate_empty_arrays -> Ret(NoneD, self.curr_path)
      [] OTHER -> Ret(TypeDiff(s, t), self.curr_path)

values(self, s, t) ==
    CASE s.t = "Null" /\ t.t = "Null" -> Ret(NoneD, self.curr_path)
      [] s.t = "Bool" /\ t.t = "Bool" ->
            Ret(IF s.b = t.b THEN NoneD ELSE ScalarBool(s.b, t.b), self.curr_path)
      [] s.t = "Number" /\ t.t = "Number" ->
            Ret(compare_numbers(self, s.n, t.n), self.curr_path)
      [] s.t = "String" /\ t.t = "String" ->
            Ret(compare_strings(self, s.s, t.s), self.curr_path)
      [] s.t = "Array" /\ t.t = "Array" -> arrays(self, s.a, t.a)
      [] s.t = "Object" /\ t.t = "Object" -> objects(self, s.o, t.o)
      [] s.t = "Array" /\ t.t = "Null" /\ self.equate_empty_arrays /\ Len(s.a) = 0 ->
            Ret(NoneD, self.curr_path)
      [] s.t = "Null" /\ t.t = "Array" /\ self.equate_empty_arrays /\ Len(t.a) = 0 ->
            Ret(NoneD, self.curr_path)
      [] OTHER -> Ret(TypeDiff(s, t), self.curr_path)

\* Diff::compare on a Diff holding source src and target tgt.
compare(self, src, tgt) == values(self, src, tgt)

----------------------------------------------------------------------------
(* Conditional exemptions: the predicate's tree accessor of rhai_script.rs, *)
(* and the registry entry, resolver and decision that lib.rs does not hold. *)

\* Option<Path>
NoPath == [some |-> FALSE]
SomePath(path) == [some |-> TRUE, v |-> path]

\* Path::replace_array_index_all_by_exact_path(curr_path), the wildcard resolver:
\* None on a length mismatch; a Key or concrete Index is kept, an All is replaced
\* by the element of curr_path at its position.
replace_array_index_all_by_exact_path(path, exact) ==
    IF Len(path) # Len(exact) THEN NoPath
    ELSE SomePath([i \in 1..Len(path) |-> IF path[i] = All THEN exact[i] ELSE path[i]])

\* rhai::Dynamic as value_by_path returns it: a value, the unit (), or no return at
\* all (Option::unwrap on None panics).
DynValue(v) == [dyn |-> "value", v |-> v]
DynUnit == [dyn |-> "unit"]
Panic == [dyn |-> "panic"]
is_map(v) == v.t = "Object"
is_array(v) == v.t = "Array"

\* The `for elem in path.iter()` loop of value_by_path from element i on; st holds
\* value, source_obj and whether a `return ()` was taken.
RECURSIVE value_by_path_from(_, _, _)
value_by_path_from(path, i, st) ==
    IF st.returned \/ i > Len(path) THEN st
    ELSE LET elem == path[i]
             found(val) == IF is_map(val) \/ is_array(val)
                           THEN [st EXCEPT !.source_obj = val]
                           ELSE [st EXCEPT !.value = DynValue(val)]
             unit == [st EXCEPT !.returned = TRUE]
         IN  value_by_path_from(path, i + 1,
                CASE elem.e = "Key" ->
                        IF ~is_map(st.source_obj) THEN unit
                        ELSE IF ~contains_key(st.source_obj.o, elem.key) THEN unit
                        ELSE found(get(st.source_obj.o, elem.key))
                  [] elem.e = "ArrayIndex" /\ elem.index.i = "Index" ->
                        IF ~is_array(st.source_obj) THEN unit
                        ELSE IF elem.index.n >= Len(st.source_obj.a) THEN unit
                        ELSE found(st.source_obj.a[elem.index.n + 1])
                  [] OTHER -> unit)

\* rhai_script::value_by_path(source_obj, path, curr_path)
value_by_path(source_obj, path, cp) ==
    LET path_res == parse_element_path(path)
        resolved == replace_array_index_all_by_exact_path(path_res.v, cp)
        st == value_by_path_from(resolved.v, 1,
                  [value |-> Panic, source_obj |-> source_obj, returned |-> FALSE])
    IN  IF ~path_res.ok THEN DynUnit
        ELSE IF ~resolved.some THEN DynUnit
        ELSE IF st.returned THEN DynUnit
        ELSE st.value

\* IgnorePathCondition::Rhai(script) for the scripts
\*   let res = target.value_by_path("<path>", curr_path); res == <value>
Rhai(path, value) == [path |-> path, value |-> value]

\* The registry entry of ignore_path_with_condition.
IgnorePathWithConditionEntry(path, condition) ==
    [path |-> path, ignore_missing |-> FALSE, condition |-> condition]

\* What the script evaluates to at cursor cp: "true", "false", or "panic".
eval_condition(condition, tgt, cp) ==
    LET res == value_by_path(tgt, condition.path, cp)
    IN  IF res = Panic THEN "panic"
        ELSE IF res = DynValue(condition.value) THEN "true" ELSE "false"

----------------------------------------------------------------------------
(* The values and path strings the builder is given. *)

Unset == [t |-> "Unset"]

One == Number(PosInt(1))
Two == Number(PosInt(2))

Keys == <<K("a"), K("b")>>

\* Every array of at most MaxLen elements of E.
Arrays(E) == {Array(a) : a \in UNION {[1..n -> E] : n \in 0..MaxLen}}

\* Every object over Keys with values in E, its entries in key order.
Objects(E) ==
    {Object(SelectSeq([i \in 1..Len(Keys) |-> <<Keys[i], f[i]>>], LAMBDA e : e[2] # Unset)) :
        f \in [1..Len(Keys) -> E \cup {Unset}]}

Scalars == {Null, Bool(TRUE), One, Two, Number(Float(3)), String("John")}
Leaves == {One, Two}
ObjLeaves == {Object(<< <<K("a"), x>> >>) : x \in Leaves}
Inner == {One} \cup ObjLeaves \cup {Array(<<One>>)}
NullLeaves == {Object(<< <<K("a"), x>> >>) : x \in {Null, Array(<<>>)}}
TreeValues ==
    Scalars \cup Arrays(Leaves) \cup Arrays(ObjLeaves) \cup Objects(Inner) \cup NullLeaves

NumberValues ==
    {Number(PosInt(v)) : v \in 0..U64Max} \cup {Number(NegInt(v)) : v \in I64Min..(-1)}
        \cup {Number(Float(m)) : m \in (0 - FloatDen)..(FloatDen + 1)}
Epsilons == 0..1

StringValues ==
    {String(s) : s \in {"John", "Jane", "2023-07-25T15:30:00Z", "2023-07-25T15:30:01Z",
                        "2023-07-25T15:30:02Z", "2023-07-25T17:30:00+02:00",
                        "2023-07-25T15:30:00.500Z"}}
Durations == {0, 500, 1000}

PathStrings ==
    { <<"a">>, <<"a", ".", "a">>, <<"[", "_", "]", ".", "a">>, <<"a", ".", "[">> }

----------------------------------------------------------------------------
(* The state machine: DiffBuilder's setters, build, Diff::compare. *)

Init ==
    /\ pc = "builder"
    /\ source = Unset
    /\ target = Unset
    /\ ignore_paths = <<>>
    /\ equate_empty_arrays = FALSE
    /\ approx_float_eq_epsilon = 0
    /\ approx_date_time_eq_duration = 0
    /\ curr_path = <<>>
    /\ result = NoneD

\* DiffBuilder::source(value), value drawn from U
Source(U) ==
    /\ pc = "builder"
    /\ source = Unset
    /\ \E v \in U : source' = v
    /\ UNCHANGED <<pc, target, ignore_paths, equate_empty_arrays, approx_float_eq_epsilon,
                   approx_date_time_eq_duration, curr_path, result>>

\* DiffBuilder::target(value), value drawn from U
Target(U) ==
    /\ pc = "builder"
    /\ target = Unset
    /\ \E v \in U : target' = v
    /\ UNCHANGED <<pc, source, ignore_paths, equate_empty_arrays, approx_float_eq_epsilon,
                   approx_date_time_eq_duration, curr_path, result>>

\* ignore_path_with_missing's effect on the builder's ignore_paths.
ignore_path_with_missing(paths, path, ignore_missing) ==
    LET elements == Path_from_str(path)
    IN  IF elements.ok THEN Append(paths, IgnorePath(elements.v, ignore_missing))
        ELSE paths

\* DiffBuilder::ignore_path_with_missing(path, ignore_missing)
IgnorePathWithMissing ==
    /\ pc = "builder"
    /\ Len(ignore_paths) < MaxIgnore
    /\ \E path \in PathStrings, ignore_missing \in BOOLEAN :
          ignore_paths' = ignore_path_with_missing(ignore_paths, path, ignore_missing)
    /\ UNCHANGED <<pc, source, target, equate_empty_arrays, approx_float_eq_epsilon,
                   approx_date_time_eq_duration, curr_path, result>>

\* DiffBuilder::ignore_path(path)
IgnorePathAction ==
    /\ pc = "builder"
    /\ Len(ignore_paths) < MaxIgnore
    /\ \E path \in PathStrings :
          ignore_paths' = ignore_path_with_missing(ignore_paths, path, FALSE)
    /\ UNCHANGED <<pc, source, target, equate_empty_arrays, approx_float_eq_epsilon,
                   approx_date_time_eq_duration, curr_path, result>>

\* DiffBuilder::equate_empty_arrays(value)
EquateEmptyArrays ==
    /\ pc = "builder"
    /\ \E b \in BOOLEAN : equate_empty_arrays' = b
    /\ UNCHANGED <<pc, source, target, ignore_paths, approx_float_eq_epsilon,
                   approx_date_time_eq_duration, curr_path, result>>

\* DiffBuilder::approx_float_eq_epsilon(value), in units of 1/FloatDen
ApproxFloatEqEpsilon ==
    /\ pc = "builder"
    /\ \E e \in Epsilons : approx_float_eq_epsilon' = e
    /\ UNCHANGED <<pc, source, target, ignore_paths, equate_empty_arrays,
                   approx_date_time_eq_duration, curr_path, result>>

\* DiffBuilder::approx_date_time_eq_duration(value), in milliseconds
ApproxDateTimeEqDuration ==
    /\ pc = "builder"
    /\ \E d \in Durations : approx_date_time_eq_duration' = d
    /\ UNCHANGED <<pc, source, target, ignore_paths, equate_empty_arrays,
                   approx_float_eq_epsilon, curr_path, result>>

\* DiffBuilder::build: an error while source or target is not set.
Build ==
    /\ pc = "builder"
    /\ source # Unset /\ target # Unset
    /\ pc' = "diff"
    /\ UNCHANGED <<source, target, ignore_paths, equate_empty_arrays, approx_float_eq_epsilon,
                   approx_date_time_eq_duration, curr_path, result>>

Self ==
    Diff(curr_path, ignore_paths, equate_empty_arrays, approx_float_eq_epsilon,
         approx_date_time_eq_duration)

\* Diff::compare
Compare ==
    /\ pc = "diff"
    /\ LET r == compare(Self, source, target)
       IN  /\ result' = r.res
           /\ curr_path' = r.curr_path
    /\ pc' = "done"
    /\ UNCHANGED <<source, target, ignore_paths, equate_empty_arrays, approx_float_eq_epsilon,
                   approx_date_time_eq_duration>>

\* Trees compared under exemptions and the empty-array option.
Next ==
    \/ Source(TreeValues)
    \/ Target(TreeValues)
    \/ IgnorePathWithMissing
    \/ IgnorePathAction
    \/ EquateEmptyArrays
    \/ Build
    \/ Compare

Spec == Init /\ [][Next]_vars

\* Numbers compared under a float tolerance.
NextNumbers ==
    \/ Source(NumberValues)
    \/ Target(NumberValues)
    \/ ApproxFloatEqEpsilon
    \/ Build
    \/ Compare

SpecNumbers == Init /\ [][NextNumbers]_vars

\* Strings compared under a timestamp tolerance.
NextStrings ==
    \/ Source(StringValues)
    \/ Target(StringValues)
    \/ ApproxDateTimeEqDuration
    \/ Build
    \/ Compare

SpecStrings == Init /\ [][NextStrings]_vars

\* Lookups of a cursor in a registry of one entry.
PathElements == {Key(K("a")), Key(K("b")), Index(0), Index(1), All}
PathUniverse == UNION {[1..n -> PathElements] : n \in 0..MaxPathLen}

InitPaths ==
    /\ pc = "lookup"
    /\ source = Unset
    /\ target = Unset
    /\ ignore_paths \in {<<IgnorePath(p, m)>> : p \in PathUniverse, m \in BOOLEAN}
    /\ equate_empty_arrays = FALSE
    /\ approx_float_eq_epsilon = 0
    /\ approx_date_time_eq_duration = 0
    /\ curr_path \in PathUniverse
    /\ result = NoneD

\* Diff::ignore_path(has_key) with the cursor at curr_path
Lookup ==
    /\ pc = "lookup"
    /\ \E has_key \in BOOLEAN :
          result' = [d |-> "Lookup", has_key |-> has_key, ignored |-> ignore_path(Self, has_key)]
    /\ pc' = "looked"
    /\ UNCHANGED <<source, target, ignore_paths, equate_empty_arrays, approx_float_eq_epsilon,
                   approx_date_time_eq_duration, curr_path>>

NextPaths == Lookup

SpecPaths == InitPaths /\ [][NextPaths]_vars

\* Path::from_str on its own: source holds the string it is given.
Alphabet == {"a", ".", "[", "]", "'", "1", "_", "8"}
InputStrings == UNION {[1..n -> Alphabet] : n \in 0..MaxStr}
PathStr(s) == [t |-> "PathStr", s |-> s]

InitParser ==
    /\ pc = "from_str"
    /\ source \in {PathStr(s) : s \in InputStrings}
    /\ target = Unset
    /\ ignore_paths = <<>>
    /\ equate_empty_arrays = FALSE
    /\ approx_float_eq_epsilon = 0
    /\ approx_date_time_eq_duration = 0
    /\ curr_path = <<>>
    /\ result = NoneD

\* <Path as FromStr>::from_str(s)
FromStr ==
    /\ pc = "from_str"
    /\ result' = Path_from_str(source.s)
    /\ pc' = "parsed"
    /\ UNCHANGED <<source, target, ignore_paths, equate_empty_arrays, approx_float_eq_epsilon,
                   approx_date_time_eq_duration, curr_path>>

NextParser == FromStr

SpecParser == InitParser /\ [][NextParser]_vars

\* Trees of containers in containers, compared under one exemption on any node path.
ElementObjects ==
    { Object(<< <<K("a"), One>>, <<K("b"), One>> >>),
      Object(<< <<K("a"), Two>>, <<K("b"), One>> >>),
      Object(<< <<K("b"), One>> >>) }
NodeArrays ==
    {Array(<<>>), Array(<<One>>), Array(<<Two>>)}
        \cup {Array(<<x>>) : x \in ElementObjects}
        \cup {Array(<<x, y>>) : x \in ElementObjects, y \in ElementObjects}
NodeObjects ==
    {Object(SelectSeq(<< <<K("a"), x>>, <<K("b"), y>> >>, LAMBDA e : e[2] # Unset)) :
        x \in {Unset, One, Array(<<One>>), Array(<<Two>>),
               Object(<< <<K("a"), One>> >>), Object(<< <<K("a"), Two>> >>)},
        y \in {Unset, One, Two}}
NodeTrees == NodeArrays \cup NodeObjects

\* The string of a path: its elements joined by dots, an index in brackets.
ElementString(e) ==
    CASE e.e = "Key" -> e.key
      [] e.index.i = "All" -> <<"[", "_", "]">>
      [] OTHER -> <<"[", Digits[e.index.n + 1], "]">>
RECURSIVE PathString(_)
PathString(q) ==
    IF Len(q) = 1 THEN ElementString(q[1])
    ELSE ElementString(q[1]) \o <<".">> \o PathString(Tail(q))
NodePathStrings ==
    {PathString(q) : q \in UNION {[1..n -> PathElements] : n \in {1, 2}}}

\* DiffBuilder::ignore_path_with_missing(path, ignore_missing), the one exemption.
IgnoreNodePath ==
    /\ pc = "builder"
    /\ ignore_paths = <<>>
    /\ \E path \in NodePathStrings, ignore_missing \in BOOLEAN :
          ignore_paths' = ignore_path_with_missing(ignore_paths, path, ignore_missing)
    /\ UNCHANGED <<pc, source, target, equate_empty_arrays, approx_float_eq_epsilon,
                   approx_date_time_eq_duration, curr_path, result>>

NextNodes ==
    \/ Source(NodeTrees)
    \/ Target(NodeTrees)
    \/ IgnoreNodePath
    \/ Build
    \/ Compare

SpecNodes == Init /\ [][NextNodes]_vars

----------------------------------------------------------------------------
(* What the properties below speak of: the locations of a tree, the value  *)
(* at a location, and the entry a difference holds for a location.         *)

Front(q) == SubSeq(q, 1, Len(q) - 1)
Last(q) == q[Len(q)]
RemoveAt(seq, i) == SubSeq(seq, 1, i - 1) \o SubSeq(seq, i + 1, Len(seq))
KeysOf(v) == IF v.t = "Object" THEN {v.o[i][1] : i \in 1..Len(v.o)} ELSE {}

\* Every path from the root of v to a node of v.
RECURSIVE Paths(_)
Paths(v) ==
    {<<>>} \cup
    CASE v.t = "Object" ->
            UNION {{<<Key(v.o[i][1])>> \o q : q \in Paths(v.o[i][2])} : i \in 1..Len(v.o)}
      [] v.t = "Array" ->
            UNION {{<<Index(i - 1)>> \o q : q \in Paths(v.a[i])} : i \in 1..Len(v.a)}
      [] OTHER -> {}

\* The node of v at path q; Unset when v has none.
RECURSIVE ValueAt(_, _)
ValueAt(v, q) ==
    IF q = <<>> THEN v
    ELSE IF q[1].e = "Key"
    THEN IF v.t = "Object" /\ contains_key(v.o, q[1].key)
         THEN ValueAt(get(v.o, q[1].key), Tail(q)) ELSE Unset
    ELSE IF v.t = "Array" /\ q[1].index.i = "Index" /\ q[1].index.n < Len(v.a)
         THEN ValueAt(v.a[q[1].index.n + 1], Tail(q)) ELSE Unset

\* v with the node at path q replaced by x.
RECURSIVE Replace(_, _, _)
Replace(v, q, x) ==
    IF q = <<>> THEN x
    ELSE IF q[1].e = "Key"
    THEN Object([i \in 1..Len(v.o) |->
            IF v.o[i][1] = q[1].key THEN <<v.o[i][1], Replace(v.o[i][2], Tail(q), x)>>
            ELSE v.o[i]])
    ELSE Array([i \in 1..Len(v.a) |->
            IF i = q[1].index.n + 1 THEN Replace(v.a[i], Tail(q), x) ELSE v.a[i]])

NoEntry == [entry_difference |-> "none"]

\* The differing pairs of an array difference, and the entries of an object one.
PairsOf(d) ==
    IF d.d # "Array" THEN <<>>
    ELSE IF d.array_difference = "pairs_only" THEN d.different_pairs
    ELSE IF d.different_pairs.some THEN d.different_pairs.map ELSE <<>>
EntriesOf(d) == IF d.d = "Object" THEN d.different_entries ELSE <<>>

\* What difference d reports for the child its node reaches by path element e: the
\* EntryDifference of a key, Value{diff} for a differing index, NoEntry for neither.
ChildEntry(d, e) ==
    IF e.e = "Key"
    THEN IF \E i \in 1..Len(EntriesOf(d)) : EntriesOf(d)[i][1] = e.key
         THEN EntriesOf(d)[CHOOSE i \in 1..Len(EntriesOf(d)) : EntriesOf(d)[i][1] = e.key][2]
         ELSE NoEntry
    ELSE IF \E i \in 1..Len(PairsOf(d)) : PairsOf(d)[i][1] = e.index.n
         THEN ValueEntry(PairsOf(d)[CHOOSE i \in 1..Len(PairsOf(d)) : PairsOf(d)[i][1] = e.index.n][2])
         ELSE NoEntry

\* What difference d, of the roots, reports for the node at path q (q not empty).
RECURSIVE EntryAt(_, _)
EntryAt(d, q) ==
    LET e == ChildEntry(d, q[1])
    IN  IF Len(q) = 1 THEN e
        ELSE IF e.entry_difference = "value" THEN EntryAt(e.value_diff, Tail(q))
        ELSE NoEntry

\* The Option<Difference> that d holds for the pair of nodes at path q.
DiffAt(d, q) ==
    IF q = <<>> THEN d
    ELSE IF EntryAt(d, q).entry_difference = "value" THEN EntryAt(d, q).value_diff
    ELSE NoneD

\* The registered entry the lookup at path q finds: the first whose pattern equals q.
Matching(paths, q) == {i \in 1..Len(paths) : Path_eq(paths[i].path, q)}
FirstMatch(paths, q) == CHOOSE i \in Matching(paths, q) : \A j \in Matching(paths, q) : i <= j

\* The pair of nodes at path q is one the traversal compares: each node above it is
\* on both sides, of one type on both sides, and matched by no registered pattern.
Compared(q) ==
    /\ ValueAt(source, q) # Unset /\ ValueAt(target, q) # Unset
    /\ \A n \in 0..Len(q) : ValueAt(source, SubSeq(q, 1, n)).t = ValueAt(target, SubSeq(q, 1, n)).t
    /\ \A n \in 1..Len(q) : Matching(ignore_paths, SubSeq(q, 1, n)) = {}

\* The Diff of the current state with the cursor at the root and paths as its registry.
Configured(paths) ==
    Diff(<<>>, paths, equate_empty_arrays, approx_float_eq_epsilon,
         approx_date_time_eq_duration)

----------------------------------------------------------------------------
\* C1: reflexivity.  With no exemptions and the default options, comparing a tree
\* with itself returns no difference.
C1_Reflexivity ==
    (/\ pc = "done"
     /\ source = target
     /\ ignore_paths = <<>>
     /\ ~equate_empty_arrays
     /\ approx_float_eq_epsilon = 0
     /\ approx_date_time_eq_duration = 0)
    => result = NoneD

\* A tree of nested containers was compared with itself.
C1_Witness ==
    /\ pc = "done"
    /\ source = target
    /\ ignore_paths = <<>> /\ ~equate_empty_arrays
    /\ source.t = "Object"
    /\ \E q \in Paths(source) : Len(q) = 2 /\ q[1].key = K("b") /\ q[2].e = "ArrayIndex"
    /\ result = NoneD

\* C2: an exemption suppresses exactly the configured entry.  For a registered
\* pattern that equals the path q of a key both sides have: the result holds no entry
\* for q, whatever the two values are; the entries of the other keys of that object
\* are those reported with the exemption not registered; and when the key is the only
\* divergence (the trees compare equal once source's value at q is target's), compare
\* returns no difference.
C2_ExemptionSuppressesEntry ==
    pc = "done" =>
        \A q \in Paths(source) \cap Paths(target) :
            \A i \in 1..Len(ignore_paths) :
                (q # <<>> /\ Last(q).e = "Key" /\ Path_eq(ignore_paths[i].path, q)) =>
                    LET rest == RemoveAt(ignore_paths, i)
                        without == compare(Configured(rest), source, target).res
                        mended == Replace(source, q, ValueAt(target, q))
                        siblings == (KeysOf(ValueAt(source, Front(q)))
                                        \cup KeysOf(ValueAt(target, Front(q)))) \ {Last(q).key}
                    IN  /\ EntryAt(result, q) = NoEntry
                        /\ \A k \in siblings :
                              EntryAt(result, Append(Front(q), Key(k)))
                                = EntryAt(without, Append(Front(q), Key(k)))
                        /\ compare(Configured(rest), mended, target).res = NoneD
                              => result = NoneD

\* An exempted key holds values of two types, and another key of the object differs:
\* the result reports the other key only.
C2_Witness ==
    /\ pc = "done"
    /\ \E i \in 1..Len(ignore_paths) : \E q \in Paths(source) \cap Paths(target) :
          /\ q # <<>> /\ Last(q).e = "Key" /\ Path_eq(ignore_paths[i].path, q)
          /\ ~ignore_paths[i].ignore_missing
          /\ ValueAt(source, q).t # ValueAt(target, q).t
          /\ EntryAt(result, q) = NoEntry
          /\ \E k \in KeysOf(ValueAt(source, Front(q))) \ {Last(q).key} :
                EntryAt(result, Append(Front(q), Key(k))).entry_difference = "value"

\* C3: the exemption decision at a key path q whose object is compared.  The lookup
\* finds the first registered entry whose pattern equals q.  With the key on both
\* sides a found entry exempts it; with the key on one side only it is exempt iff the
\* found entry was registered with ignore_missing, and is otherwise reported, Extra
\* with source's value or Missing with target's; a path no pattern equals is never
\* exempt.
C3_ExemptionDecision ==
    pc = "done" =>
        \A q \in Paths(source) \cup Paths(target) :
            (q # <<>> /\ Last(q).e = "Key" /\ Compared(Front(q))) =>
                LET m == Matching(ignore_paths, q)
                    flagged == m # {} /\ ignore_paths[FirstMatch(ignore_paths, q)].ignore_missing
                    s == ValueAt(source, q)
                    t == ValueAt(target, q)
                    here == [Configured(ignore_paths) EXCEPT !.curr_path = q]
                    e == EntryAt(result, q)
                    d == values(here, s, t).res
                IN  /\ ignore_path(here, TRUE) = (m # {})
                    /\ ignore_path(here, FALSE) = flagged
                    /\ (s # Unset /\ t # Unset /\ m # {}) => e = NoEntry
                    /\ (s # Unset /\ t = Unset) => e = IF flagged THEN NoEntry ELSE Extra(s)
                    /\ (s = Unset /\ t # Unset) => e = IF flagged THEN NoEntry ELSE Missing(t)
                    /\ (s # Unset /\ t # Unset /\ m = {}) =>
                          e = IF IsSome(d) THEN ValueEntry(d) ELSE NoEntry

\* A key that only source has is matched by an entry registered without
\* ignore_missing, and is reported as Extra.
C3_Witness ==
    /\ pc = "done"
    /\ \E q \in Paths(source) :
          /\ q # <<>> /\ Last(q).e = "Key" /\ Compared(Front(q))
          /\ Matching(ignore_paths, q) # {}
          /\ ValueAt(target, q) = Unset
          /\ EntryAt(result, q) = Extra(ValueAt(source, q))

\* C4: object entry classification.  With no exemptions, the difference of a compared
\* pair of objects S, T has exactly one entry per diverging key and no other: Extra
\* with S[k] for a key of S alone, Missing with T[k] for a key of T alone, Value with
\* the difference of S[k] and T[k] for a shared key whose values compare as different.
C4_ObjectEntryClassification ==
    (pc = "done" /\ ignore_paths = <<>>) =>
        \A q \in Paths(source) \cap Paths(target) :
            (ValueAt(source, q).t = "Object" /\ Compared(q)) =>
                LET S == ValueAt(source, q)
                    T == ValueAt(target, q)
                    diff(k) == compare(Configured(<<>>), get(S.o, k), get(T.o, k)).res
                    entries == EntriesOf(DiffAt(result, q))
                    expected ==
                        {<<k, Extra(get(S.o, k))>> : k \in KeysOf(S) \ KeysOf(T)}
                        \cup {<<k, Missing(get(T.o, k))>> : k \in KeysOf(T) \ KeysOf(S)}
                        \cup {<<k, ValueEntry(diff(k))>> :
                                k \in {x \in KeysOf(S) \cap KeysOf(T) : IsSome(diff(x))}}
                IN  /\ {entries[i] : i \in 1..Len(entries)} = expected
                    /\ Len(entries) = Cardinality(expected)

\* An object difference holds a Missing entry beside a Value entry.
C4_Witness ==
    /\ pc = "done" /\ ignore_paths = <<>>
    /\ source.t = "Object" /\ target.t = "Object"
    /\ \E i, j \in 1..Len(EntriesOf(result)) :
          /\ EntriesOf(result)[i][2].entry_difference = "missing"
          /\ EntriesOf(result)[j][2].entry_difference = "value"

\* C5: array length classification.  For a compared pair of arrays S, T, with D the
\* indices below both lengths whose elements compare as different: the differing
\* pairs are those of D; equal lengths give no difference when D is empty and
\* PairsOnly otherwise; a longer S gives Longer with extra_length |S| - |T|; a shorter
\* S gives Shorter with missing_elements the tail of T from |S| on.
C5_ArrayLengthClassification ==
    pc = "done" =>
        \A q \in Paths(source) \cap Paths(target) :
            (ValueAt(source, q).t = "Array" /\ Compared(q)) =>
                LET S == ValueAt(source, q).a
                    T == ValueAt(target, q).a
                    el == [i \in 0..(Min(Len(S), Len(T)) - 1) |->
                            values([Configured(ignore_paths) EXCEPT
                                        !.curr_path = Append(q, Index(i))],
                                   S[i + 1], T[i + 1]).res]
                    D == {i \in DOMAIN el : IsSome(el[i])}
                    d == DiffAt(result, q)
                    pairs == PairsOf(d)
                IN  /\ {pairs[j] : j \in 1..Len(pairs)} = {<<i, el[i]>> : i \in D}
                    /\ Len(pairs) = Cardinality(D)
                    /\ Len(S) = Len(T) =>
                          IF D = {} THEN d = NoneD
                          ELSE d.d = "Array" /\ d.array_difference = "pairs_only"
                    /\ Len(S) > Len(T) =>
                          /\ d.d = "Array" /\ d.array_difference = "longer"
                          /\ d.extra_length = Len(S) - Len(T)
                    /\ Len(S) < Len(T) =>
                          /\ d.d = "Array" /\ d.array_difference = "shorter"
                          /\ d.missing_elements = SubSeq(T, Len(S) + 1, Len(T))

\* A shorter source whose one element differs: Shorter with a pair and a tail.
C5_Witness ==
    /\ pc = "done"
    /\ source.t = "Array" /\ target.t = "Array"
    /\ Len(source.a) = 1 /\ Len(target.a) > 1
    /\ result.d = "Array" /\ result.array_difference = "shorter"
    /\ result.different_pairs.some
    /\ result.missing_elements # SubSeq(target.a, 1, Len(target.a) - 1)

\* The path a string of characters parses to.
P(chars) == parse_element_path(chars).v

\* Wildcard equality as the specification words it.
ElementsEqual(a, b) ==
    \/ a.e = "Key" /\ b.e = "Key" /\ a.key = b.key
    \/ /\ a.e = "ArrayIndex" /\ b.e = "ArrayIndex"
       /\ (a.index.i = "All" \/ b.index.i = "All" \/ a.index.n = b.index.n)
PathsEqual(p, q) == Len(p) = Len(q) /\ \A i \in 1..Len(p) : ElementsEqual(p[i], q[i])

\* C6: wildcard path equality.  A lookup with the key on both sides finds the
\* registered pattern iff pattern and cursor have one length and are element-wise
\* equal: keys with the same string, indices of which one is All or both the same
\* integer, a key never an index.  So a.[_].c equals a.[0].c, a.[7].c and a.[_].c, and
\* neither a.[0].d nor a path of another length.
C6_WildcardPathEquality ==
    /\ (pc = "looked" /\ result.has_key) =>
            result.ignored = PathsEqual(ignore_paths[1].path, curr_path)
    /\ pc = "looked" =>
            Path_eq(ignore_paths[1].path, curr_path) = PathsEqual(ignore_paths[1].path, curr_path)
    /\ LET pattern == P(<<"a", ".", "[", "_", "]", ".", "c">>)
       IN  /\ Path_eq(pattern, P(<<"a", ".", "[", "0", "]", ".", "c">>))
           /\ Path_eq(pattern, P(<<"a", ".", "[", "7", "]", ".", "c">>))
           /\ Path_eq(pattern, pattern)
           /\ ~Path_eq(pattern, P(<<"a", ".", "[", "0", "]", ".", "d">>))
           /\ ~Path_eq(pattern, P(<<"a", ".", "[", "0", "]">>))
           /\ ~Path_eq(pattern, P(<<"a", ".", "[", "0", "]", ".", "c", ".", "c">>))

\* A pattern with a wildcard was looked up at a cursor with a concrete index, and found.
C6_Witness ==
    /\ pc = "looked" /\ result.has_key /\ result.ignored
    /\ Len(curr_path) = 2
    /\ ignore_paths[1].path[1] = All /\ curr_path[1] = Index(1)
    /\ curr_path[2].e = "Key"

\* C7: integral numbers are compared for exact equality.  For two integral numbers of
\* any sign and magnitude, under every epsilon, compare returns no difference iff they
\* are the same number, and a Scalar number difference with both values otherwise.
C7_IntegralExactEquality ==
    (pc = "done" /\ ~is_f64(source.n) /\ ~is_f64(target.n)) =>
        /\ (result = NoneD) = (source.n.v = target.n.v)
        /\ result # NoneD => result = ScalarNumber(source.n, target.n)

\* C8: temporal tolerance on strings.  With a tolerance other than zero and both
\* strings timestamps, they are equal iff the two instants are at most the tolerance
\* apart; otherwise (a string that is no timestamp, or tolerance zero) they are equal
\* iff they are the same string.  A difference is the Scalar string one.
C8_TemporalTolerance ==
    pc = "done" =>
        LET s == parse_from_rfc3339(source.s)
            t == parse_from_rfc3339(target.s)
        IN  /\ IF approx_date_time_eq_duration # 0 /\ s.ok /\ t.ok
               THEN (result = NoneD) = (Abs(s.v - t.v) <= approx_date_time_eq_duration)
               ELSE (result = NoneD) = (source.s = target.s)
            /\ result # NoneD => result = ScalarString(source.s, target.s)

\* Two timestamps exactly the tolerance apart compared equal.
C8_Witness ==
    /\ pc = "done"
    /\ approx_date_time_eq_duration # 0
    /\ parse_from_rfc3339(source.s).ok /\ parse_from_rfc3339(target.s).ok
    /\ Abs(parse_from_rfc3339(source.s).v - parse_from_rfc3339(target.s).v)
          = approx_date_time_eq_duration
    /\ result = NoneD

\* The pair of nodes at path q is compared and q itself is matched by no pattern.
ComparedNode(q) ==
    /\ ValueAt(source, q) # Unset /\ ValueAt(target, q) # Unset
    /\ q # <<>> => Compared(Front(q)) /\ Matching(ignore_paths, q) = {}

\* C9: empty-array equivalence.  For a compared pair of nodes of two JSON types: an
\* array against null (either way round) is no difference iff equate_empty_arrays is
\* set and the array is empty; every other pair is a Type difference with source's
\* and target's type and value.
C9_EmptyArrayEquivalence ==
    pc = "done" =>
        \A q \in Paths(source) \cap Paths(target) :
            LET s == ValueAt(source, q)
                t == ValueAt(target, q)
                d == DiffAt(result, q)
            IN  (s.t # t.t /\ ComparedNode(q)) =>
                    /\ (s.t = "Array" /\ t.t = "Null") =>
                          (d = NoneD) = (equate_empty_arrays /\ Len(s.a) = 0)
                    /\ (s.t = "Null" /\ t.t = "Array") =>
                          (d = NoneD) = (equate_empty_arrays /\ Len(t.a) = 0)
                    /\ ~({s.t, t.t} = {"Array", "Null"}) => d # NoneD
                    /\ d # NoneD => d = TypeDiff(s, t)

\* With the option set, an empty array under a key was compared with null and the
\* result is no difference.
C9_Witness ==
    /\ pc = "done" /\ equate_empty_arrays
    /\ source.t = "Object"
    /\ \E q \in Paths(source) \cap Paths(target) :
          /\ Len(q) = 1
          /\ ValueAt(source, q) = Array(<<>>) /\ ValueAt(target, q) = Null
    /\ result = NoneD

\* A difference with its sides exchanged when flip is set, its object entries and
\* array pairs as sets, a Shorter's missing elements as their number.
RECURSIVE Norm(_, _)
Norm(d, flip) ==
    CASE d.d = "None" -> d
      [] d.d = "Scalar" ->
            IF flip THEN [d EXCEPT !.source = d.target, !.target = d.source] ELSE d
      [] d.d = "Type" ->
            IF flip THEN TypeDiff(d.target_value, d.source_value) ELSE d
      [] d.d = "Array" ->
            [d |-> "Array",
             shape |-> CASE d.array_difference = "pairs_only" -> "pairs_only"
                         [] d.array_difference = "longer" -> IF flip THEN "shorter" ELSE "longer"
                         [] OTHER -> IF flip THEN "longer" ELSE "shorter",
             n |-> CASE d.array_difference = "pairs_only" -> 0
                     [] d.array_difference = "longer" -> d.extra_length
                     [] OTHER -> Len(d.missing_elements),
             pairs |-> {<<PairsOf(d)[i][1], Norm(PairsOf(d)[i][2], flip)>> :
                            i \in 1..Len(PairsOf(d))}]
      [] OTHER ->
            [d |-> "Object",
             entries |-> {<<d.different_entries[i][1],
                            LET e == d.different_entries[i][2]
                            IN  CASE e.entry_difference = "missing" ->
                                        IF flip THEN Extra(e.value) ELSE e
                                  [] e.entry_difference = "extra" ->
                                        IF flip THEN Missing(e.value) ELSE e
                                  [] OTHER -> ValueEntry(Norm(e.value_diff, flip))>> :
                            i \in 1..Len(d.different_entries)}]

\* C10: symmetry of shape.  Under every configuration, comparing (target, source)
\* reports what comparing (source, target) reports with the sides exchanged: at every
\* object a key is Missing with v iff it was Extra with v and the reverse, an array is
\* Shorter with n missing elements iff it was Longer with extra_length n and the
\* reverse, and the differing indices are the same.
C10_SymmetryOfShape ==
    pc = "done" =>
        Norm(compare(Configured(ignore_paths), target, source).res, TRUE) = Norm(result, FALSE)

\* The result holds an Extra and a Missing entry in one object, under an exemption.
C10_Witness ==
    /\ pc = "done"
    /\ ignore_paths # <<>>
    /\ \E i, j \in 1..Len(EntriesOf(result)) :
          /\ EntriesOf(result)[i][2].entry_difference = "extra"
          /\ EntriesOf(result)[j][2].entry_difference = "missing"

\* Difference d and every difference inside it holds no empty collection.
RECURSIVE NoEmptyWrapper(_)
NoEmptyWrapper(d) ==
    CASE d.d = "Object" ->
            /\ Len(d.different_entries) >= 1
            /\ \A i \in 1..Len(d.different_entries) :
                  LET e == d.different_entries[i][2]
                  IN  e.entry_difference = "value" =>
                          IsSome(e.value_diff) /\ NoEmptyWrapper(e.value_diff)
      [] d.d = "Array" ->
            /\ d.array_difference = "pairs_only" => Len(d.different_pairs) >= 1
            /\ d.array_difference # "pairs_only" =>
                  (d.different_pairs.some => Len(d.different_pairs.map) >= 1)
            /\ d.array_difference = "longer" => d.extra_length >= 1
            /\ d.array_difference = "shorter" => Len(d.missing_elements) >= 1
            /\ \A i \in 1..Len(PairsOf(d)) :
                  IsSome(PairsOf(d)[i][2]) /\ NoEmptyWrapper(PairsOf(d)[i][2])
      [] OTHER -> TRUE

\* Every child of the compared pair of containers at path q compares equal or is
\* exempt (arrays of one length, objects with any keys).
ChildrenEqualOrExempt(q) ==
    LET S == ValueAt(source, q)
        T == ValueAt(target, q)
        at(e) == [Configured(ignore_paths) EXCEPT !.curr_path = Append(q, e)]
    IN  IF S.t = "Array"
        THEN /\ Len(S.a) = Len(T.a)
             /\ \A i \in 1..Len(S.a) : values(at(Index(i - 1)), S.a[i], T.a[i]).res = NoneD
        ELSE \A k \in KeysOf(S) \cup KeysOf(T) :
                IF k \in KeysOf(S) \cap KeysOf(T)
                THEN \/ ignore_path(at(Key(k)), TRUE)
                     \/ values(at(Key(k)), get(S.o, k), get(T.o, k)).res = NoneD
                ELSE ignore_path(at(Key(k)), FALSE)

\* C11: no empty wrapper.  In every result, every Object difference has an entry,
\* every PairsOnly a differing pair, the differing pairs of a Longer or Shorter are
\* absent or not empty, extra_length is at least 1 and a Shorter has a missing
\* element; and a compared pair of containers whose children all compare equal or
\* are exempt yields no difference.
C11_NoEmptyWrapper ==
    pc = "done" =>
        /\ NoEmptyWrapper(result)
        /\ \A q \in Paths(source) \cap Paths(target) :
              (/\ ValueAt(source, q).t \in {"Array", "Object"}
               /\ Compared(q)
               /\ ChildrenEqualOrExempt(q)) => DiffAt(result, q) = NoneD

\* Two arrays of two elements that differ in exempt keys alone gave no difference.
C11_Witness ==
    /\ pc = "done"
    /\ source # target
    /\ source.t = "Array" /\ target.t = "Array"
    /\ Len(source.a) = 2 /\ Len(target.a) = 2
    /\ ignore_paths # <<>>
    /\ result = NoneD

----------------------------------------------------------------------------
(* The grammar of path strings, read off the string itself. *)

\* The character at i stands between an opening quote and its closing quote (for a
\* quote at i: it is a closing one).
InQuotes(s, i) == Cardinality({j \in 1..(i - 1) : s[j] = "'"}) % 2 = 1

\* The pieces of s between the dots outside quotes.
RECURSIVE Split(_)
Split(s) ==
    LET dots == {i \in 1..Len(s) : s[i] = "." /\ ~InQuotes(s, i)}
    IN  IF dots = {} THEN <<s>>
        ELSE LET i == CHOOSE d \in dots : \A e \in dots : d <= e
             IN  <<SubSeq(s, 1, i - 1)>> \o Split(SubSeq(s, i + 1, Len(s)))

Inside(p) == SubSeq(p, 2, Len(p) - 1)
AllDigits(p) == p # <<>> /\ \A i \in 1..Len(p) : IsDigit(p[i])
IsBareKey(p) == p # <<>> /\ \A i \in 1..Len(p) : p[i] \notin {".", "[", "]", "'"}
IsQuotedKey(p) ==
    /\ Len(p) >= 3 /\ p[1] = "'" /\ p[Len(p)] = "'"
    /\ \A i \in 2..(Len(p) - 1) : p[i] # "'"
IsWildcard(p) == p = <<"[", "_", "]">>
IsIndex(p) == Len(p) >= 3 /\ p[1] = "[" /\ p[Len(p)] = "]" /\ AllDigits(Inside(p))

\* The number a string of decimal digits writes.
RECURSIVE DecimalValue(_)
DecimalValue(p) ==
    IF p = <<>> THEN 0
    ELSE 10 * DecimalValue(SubSeq(p, 1, Len(p) - 1)) + DigitVal(p[Len(p)])

WellFormed(s) ==
    \A k \in 1..Len(Split(s)) :
        LET p == Split(s)[k]
        IN  IsBareKey(p) \/ IsQuotedKey(p) \/ IsWildcard(p) \/ IsIndex(p)

\* The element the grammar gives a piece.
ElementOf(p) ==
    CASE IsBareKey(p) -> Key(p)
      [] IsQuotedKey(p) -> Key(Inside(p))
      [] IsWildcard(p) -> All
      [] OTHER -> Index(DecimalValue(Inside(p)))
ElementsOf(s) == [k \in 1..Len(Split(s)) |-> ElementOf(Split(s)[k])]

\* Every index of s fits a usize.
IndicesFit(s) ==
    \A k \in 1..Len(Split(s)) :
        IsIndex(Split(s)[k]) => DecimalValue(Inside(Split(s)[k])) <= U64Max

\* C12 as stated: every well-formed string parses to its elements in order, Key for
\* a bare or quoted key, Index(N) for [N] with any decimal N, All for [_].
C12_WellFormedParses ==
    (pc = "parsed" /\ WellFormed(source.s)) => result = Ok(ElementsOf(source.s))

\* C12, amended: every well-formed string whose indices [N] are at most usize::MAX
\* parses to exactly its elements in order: Key(text) for a bare key, Key(content)
\* for a quoted key with '.', '[' and ']' kept, Index(N) for [N], All for [_].
C12_WellFormedParsesWithinUsize ==
    (pc = "parsed" /\ WellFormed(source.s) /\ IndicesFit(source.s)) =>
        result = Ok(ElementsOf(source.s))

\* A quoted key holding a dot, followed by a bare key, parsed to two keys.
C12_Witness ==
    /\ pc = "parsed"
    /\ WellFormed(source.s) /\ IndicesFit(source.s)
    /\ Len(Split(source.s)) = 2
    /\ Split(source.s)[1] = <<"'", ".", "'">>
    /\ result = Ok(<<Key(<<".">>), Key(<<"a">>)>>)

\* The malformed inputs.
LeadingDot(s) == s # <<>> /\ s[1] = "."
UnclosedQuote(s) == Cardinality({j \in 1..Len(s) : s[j] = "'"}) % 2 = 1
UnclosedBracket(s) ==
    \E i \in 1..Len(s) :
        /\ s[i] = "[" /\ ~InQuotes(s, i)
        /\ ~\E j \in (i + 1)..Len(s) : s[j] = "]" /\ ~InQuotes(s, j)
QuoteAfterBareToken(s) ==
    \E i \in 2..Len(s) :
        /\ s[i] = "'" /\ ~InQuotes(s, i)
        /\ s[i - 1] \notin {".", "[", "]", "'"}
EmptyQuotedKey(s) ==
    \E i \in 1..(Len(s) - 1) : s[i] = "'" /\ ~InQuotes(s, i) /\ s[i + 1] = "'"

\* C13: malformed input is rejected.  Parse returns an error for the empty string,
\* for a leading dot, for a quote opened and not closed, for a bracket opened with
\* no closing bracket after it, for a quote opened right after a bare character, and
\* for an empty quoted key.
C13_MalformedRejected ==
    (/\ pc = "parsed"
     /\ \/ source.s = <<>>
        \/ LeadingDot(source.s)
        \/ UnclosedQuote(source.s)
        \/ UnclosedBracket(source.s)
        \/ QuoteAfterBareToken(source.s)
        \/ EmptyQuotedKey(source.s))
    => ~result.ok

\* An input whose one fault is a bracket left open was rejected for it.
C13_Witness ==
    /\ pc = "parsed"
    /\ UnclosedBracket(source.s)
    /\ ~LeadingDot(source.s) /\ ~UnclosedQuote(source.s)
    /\ ~QuoteAfterBareToken(source.s) /\ ~EmptyQuotedKey(source.s)
    /\ result = Err("Unclosed bracket")

\* Between an opening bracket outside quotes and the first closing bracket after it
\* stands a text that is neither _ nor a decimal integer.
BadIndexContent(s) ==
    \E i \in 1..Len(s) : \E j \in (i + 1)..Len(s) :
        /\ s[i] = "[" /\ ~InQuotes(s, i)
        /\ s[j] = "]" /\ ~InQuotes(s, j)
        /\ \A k \in (i + 1)..(j - 1) : ~(s[k] = "]" /\ ~InQuotes(s, k))
        /\ SubSeq(s, i + 1, j - 1) # <<"_">>
        /\ ~AllDigits(SubSeq(s, i + 1, j - 1))

\* C14: invalid array index.  For every input, if the text between an opening
\* bracket outside quotes and its closing bracket is neither _ nor a non-negative
\* decimal integer, parse returns an error.
C14_InvalidArrayIndex ==
    (pc = "parsed" /\ BadIndexContent(source.s)) => ~result.ok

----------------------------------------------------------------------------
(* Comparison under one conditional exemption. *)

users == <<"u", "s", "e", "r", "s">>
name == <<"n", "a", "m", "e">>
age == <<"a", "g", "e">>
animals == <<"a", "n", "i", "m", "a", "l", "s">>
type == <<"t", "y", "p", "e">>
Dot == <<".">>
Wildcard == <<"[", "_", "]">>

\* The documents of examples/ignore_with_rhai_script.rs, the two ages and the type
\* of Ana's animal varied.
Doc(age0, age1, ty) ==
    Object(<< <<users, Array(<<
        Object(<< <<age, Number(PosInt(age0))>>, <<name, String("Joe")>> >>),
        Object(<< <<age, Number(PosInt(age1))>>,
                  <<animals, Object(<< <<type, String(ty)>> >>)>>,
                  <<name, String("Ana")>> >>) >>)>> >>)
ConditionDocs == {Doc(a0, a1, ty) : a0 \in {33, 43}, a1 \in {32, 33, 43}, ty \in {"dog", "cat"}}

AgePath == users \o Dot \o Wildcard \o Dot \o age
TypePath == users \o Dot \o Wildcard \o Dot \o animals \o Dot \o type
Conditions ==
    {Rhai(path, v) : path \in {AgePath, TypePath}, v \in {Number(PosInt(33)), String("cat")}}

\* ignore_path_with_condition's effect on the builder's ignore_paths.
ignore_path_with_condition(paths, path, condition) ==
    LET elements == Path_from_str(path)
    IN  IF elements.ok THEN Append(paths, IgnorePathWithConditionEntry(elements.v, condition))
        ELSE paths

\* DiffBuilder::ignore_path_with_condition(path, condition), the one exemption.
IgnorePathWithCondition ==
    /\ pc = "builder"
    /\ ignore_paths = <<>>
    /\ \E path \in {AgePath, TypePath}, condition \in Conditions :
          ignore_paths' = ignore_path_with_condition(ignore_paths, path, condition)
    /\ UNCHANGED <<pc, source, target, equate_empty_arrays, approx_float_eq_epsilon,
                   approx_date_time_eq_duration, curr_path, result>>

\* The key paths at which the traversal looks the conditional entry up with the key
\* on both sides: those the pattern equals, under nodes of one type on both sides.
conditional_lookups(entry, src, tgt) ==
    {c \in Paths(src) \cap Paths(tgt) :
        /\ c # <<>> /\ Last(c).e = "Key"
        /\ Path_eq(entry.path, c)
        /\ \A n \in 0..(Len(c) - 1) :
              ValueAt(src, SubSeq(c, 1, n)).t = ValueAt(tgt, SubSeq(c, 1, n)).t}

\* A set of paths as a sequence of unconditional entries.
RECURSIVE exempt_at(_)
exempt_at(cs) ==
    IF cs = {} THEN <<>>
    ELSE LET c == CHOOSE x \in cs : TRUE
         IN  <<IgnorePath(c, FALSE)>> \o exempt_at(cs \ {c})

\* The decision table's conditional row inside the traversal: with the key on both
\* sides the matched entry exempts iff its condition evaluates to true at the
\* cursor, and with the key on one side it does not exempt.  The one conditional
\* entry therefore acts as an unconditional entry at each cursor where its
\* condition is true; a predicate that panics ends the comparison.
compare_with_condition(self, src, tgt) ==
    IF self.ignore_paths = <<>> THEN compare(self, src, tgt)
    ELSE LET entry == self.ignore_paths[1]
             lookups == conditional_lookups(entry, src, tgt)
             granted == {c \in lookups : eval_condition(entry.condition, tgt, c) = "true"}
         IN  IF \E c \in lookups : eval_condition(entry.condition, tgt, c) = "panic"
             THEN Ret(Panic, self.curr_path)
             ELSE compare([self EXCEPT !.ignore_paths = exempt_at(granted)], src, tgt)

\* Diff::compare with the conditional entry in the registry
CompareWithCondition ==
    /\ pc = "diff"
    /\ LET r == compare_with_condition(Self, source, target)
       IN  /\ result' = r.res
           /\ curr_path' = r.curr_path
    /\ pc' = "done"
    /\ UNCHANGED <<source, target, ignore_paths, equate_empty_arrays, approx_float_eq_epsilon,
                   approx_date_time_eq_duration>>

NextCondition ==
    \/ Source(ConditionDocs)
    \/ Target(ConditionDocs)
    \/ IgnorePathWithCondition
    \/ Build
    \/ CompareWithCondition

SpecCondition == Init /\ [][NextCondition]_vars

\* The difference of the type field of Ana's animal, dog against cat.
TypeFieldDifference ==
    ObjectDiff(<< <<users, ValueEntry(PairsOnly(<< <<1,
        ObjectDiff(<< <<animals, ValueEntry(
            ObjectDiff(<< <<type, ValueEntry(ScalarString("dog", "cat"))>> >>))>> >>)>> >>))>> >>)

\* C15: conditional exemption scenario.  For two documents identical except that
\* users[1].animals.type is dog in source and cat in target, with an exemption on
\* users.[_].animals.type whose condition tests the target's users.[_].age, resolved
\* against the current path, for equality with 33: compare returns no difference
\* when users[1].age is 33 and the type-field difference for any other age.
C15_ConditionalExemptionScenario ==
    pc = "done" =>
        \A a0 \in {33, 43}, a1 \in {32, 33, 43} :
            (/\ source = Doc(a0, a1, "dog")
             /\ target = Doc(a0, a1, "cat")
             /\ ignore_paths = <<IgnorePathWithConditionEntry(P(TypePath),
                                    Rhai(AgePath, Number(PosInt(33))))>>)
            => result = IF a1 = 33 THEN NoneD ELSE TypeFieldDifference

----------------------------------------------------------------------------
(* The predicate's tree accessor on its own: a script at cursor curr_path calls *)
(* target.value_by_path(path, curr_path).                                       *)

AccessorTrees ==
    { One,
      Array(<<One>>),
      Array(<<Array(<<One>>)>>),
      Array(<<Object(<< <<K("a"), One>> >>)>>),
      Object(<< <<K("a"), One>> >>),
      Object(<< <<K("a"), Array(<<One>>)>> >>),
      Object(<< <<K("a"), Object(<< <<K("b"), One>> >>)>> >>),
      Object(<< <<K("a"), One>>, <<K("b"), Object(<< <<K("a"), Two>> >>)>> >>) }

AccessorPaths ==
    { <<"a">>, <<"b">>, <<"a", ".", "b">>, <<"b", ".", "a">>, <<"a", ".", "[", "0", "]">>,
      <<"[", "0", "]">>, <<"[", "1", "]">>, <<"[", "0", "]", ".", "a">>,
      <<"[", "0", "]", ".", "[", "0", "]">>, <<"[", "_", "]">>, <<"a", ".", "[", "_", "]">>,
      <<"a", ".", "[">> }

\* The paths of visited nodes: no wildcard.
Cursors == {q \in PathUniverse : \A i \in 1..Len(q) : q[i] # All}

InitAccessor ==
    /\ pc = "script"
    /\ source = Unset
    /\ target \in AccessorTrees
    /\ curr_path \in Cursors
    /\ \E path \in AccessorPaths :
          ignore_paths = <<IgnorePathWithConditionEntry(curr_path, Rhai(path, One))>>
    /\ equate_empty_arrays = FALSE
    /\ approx_float_eq_epsilon = 0
    /\ approx_date_time_eq_duration = 0
    /\ result = NoneD

\* target.value_by_path(path, curr_path), called by the script
ValueByPath ==
    /\ pc = "script"
    /\ result' = value_by_path(target, ignore_paths[1].condition.path, curr_path)
    /\ pc' = "returned"
    /\ UNCHANGED <<source, target, ignore_paths, equate_empty_arrays, approx_float_eq_epsilon,
                   approx_date_time_eq_duration, curr_path>>

NextAccessor == ValueByPath

SpecAccessor == InitAccessor /\ [][NextAccessor]_vars

\* What the accessor is to return: the scalar at the end of the walk from the root
\* along the resolved path, the unit in every other case.
Located(tree, path, cp) ==
    LET parsed == parse_element_path(path)
        resolved == replace_array_index_all_by_exact_path(parsed.v, cp)
        node == ValueAt(tree, resolved.v)
    IN  IF parsed.ok /\ resolved.some /\ node.t \notin {"Unset", "Object", "Array"}
        THEN DynValue(node) ELSE DynUnit

\* C16: the accessor never faults.  For every tree, path string and current path,
\* value_by_path returns the scalar found by walking the tree from its root through
\* each element of the resolved path when the walk ends on a scalar at the last
\* element, and the unit in every other case.
C16_AccessorNeverFaults ==
    pc = "returned" =>
        result = Located(target, ignore_paths[1].condition.path, curr_path)

\* The array element at path q is on both sides, in a compared pair of arrays.
ComparedElement(q) ==
    /\ q # <<>> /\ Last(q).e = "ArrayIndex"
    /\ ValueAt(source, q) # Unset /\ ValueAt(target, q) # Unset
    /\ Compared(Front(q))

\* C17 as stated: the registry is consulted at every node, reached through a key or
\* through an index: a registered pattern that equals the path of an array element
\* present on both sides suppresses the difference at that element.
C17_ConsultedAtEveryNode ==
    pc = "done" =>
        \A q \in Paths(source) \cap Paths(target) :
            (ComparedElement(q) /\ Matching(ignore_paths, q) # {}) =>
                DiffAt(result, q) = NoneD

\* C17, amended: the registry is consulted at the nodes reached through an object
\* key and not at those reached through an array index.  A registered pattern that
\* equals the path of an array element present on both sides does not suppress the
\* difference at that element: the element is compared, and what is reported for it
\* is the difference of its two values.  A pattern that equals the path of a key
\* present on both sides suppresses the entry of that key.
C17_ConsultedAtKeysOnly ==
    pc = "done" =>
        \A q \in Paths(source) \cap Paths(target) :
            /\ (ComparedElement(q) /\ Matching(ignore_paths, q) # {}) =>
                  DiffAt(result, q)
                    = values([Configured(ignore_paths) EXCEPT !.curr_path = q],
                             ValueAt(source, q), ValueAt(target, q)).res
            /\ (/\ q # <<>> /\ Last(q).e = "Key" /\ Compared(Front(q))
                /\ Matching(ignore_paths, q) # {}) => EntryAt(result, q) = NoEntry

\* The elements of an array under key a differ, a pattern ending in an index equals
\* the element's path, and the difference of the element is reported.
C17_Witness ==
    /\ pc = "done"
    /\ ignore_paths # <<>>
    /\ Len(ignore_paths[1].path) = 2
    /\ ignore_paths[1].path[1] = Key(K("a"))
    /\ LET q == <<Key(K("a")), Index(0)>>
       IN  /\ ComparedElement(q)
           /\ Path_eq(ignore_paths[1].path, q)
           /\ DiffAt(result, q) = ScalarNumber(One.n, Two.n)

\* C18: cursor discipline.  The cursor is empty when compare finishes; the
\* comparison of every compared pair of nodes returns with the cursor it was entered
\* with; and every lookup sees the path of its node: at every key under a compared
\* pair of objects the decision is the one the registry gives for the path from the
\* root to that key, whatever was examined before it (an exempt key, an Extra or
\* Missing entry, a nested array or object).
C18_CursorDiscipline ==
    pc = "done" =>
        /\ curr_path = <<>>
        /\ \A q \in Paths(source) \cap Paths(target) :
              Compared(q) =>
                  values([Configured(ignore_paths) EXCEPT !.curr_path = q],
                         ValueAt(source, q), ValueAt(target, q)).curr_path = q
        /\ \A q \in Paths(source) \cup Paths(target) :
              (q # <<>> /\ Last(q).e = "Key" /\ Compared(Front(q))) =>
                  LET s == ValueAt(source, q)
                      t == ValueAt(target, q)
                      hit == /\ Matching(ignore_paths, q) # {}
                             /\ \/ s # Unset /\ t # Unset
                                \/ ignore_paths[FirstMatch(ignore_paths, q)].ignore_missing
                      d == values([Configured(ignore_paths) EXCEPT !.curr_path = q], s, t).res
                  IN  EntryAt(result, q) =
                          CASE hit -> NoEntry
                            [] t = Unset -> Extra(s)
                            [] s = Unset -> Missing(t)
                            [] OTHER -> IF IsSome(d) THEN ValueEntry(d) ELSE NoEntry

\* After an array under key a was compared, the sibling key b, which differs, was
\* found exempt by the pattern b.
C18_Witness ==
    /\ pc = "done"
    /\ curr_path = <<>>
    /\ ignore_paths # <<>> /\ ignore_paths[1].path = <<Key(K("b"))>>
    /\ source.t = "Object" /\ target.t = "Object"
    /\ ValueAt(source, <<Key(K("a"))>>).t = "Array"
    /\ ValueAt(target, <<Key(K("a"))>>).t = "Array"
    /\ ValueAt(source, <<Key(K("b"))>>) = One
    /\ ValueAt(target, <<Key(K("b"))>>) = Two
    /\ EntryAt(result, <<Key(K("b"))>>) = NoEntry
    /\ EntryAt(result, <<Key(K("a"))>>).entry_difference = "value"

====
